---- MODULE Spec2Model ----
(***************************************************************************)
(* Model of homework.py: the poll-evaluate-notify loop of the homework     *)
(* status bot, and the pure functions it is built from.                    *)
(*                                                                         *)
(* Python strings are TLA+ strings and f-strings are concatenations.  The  *)
(* Russian literals of the source are transliterated to ASCII, one         *)
(* distinct literal per source literal.                                    *)
(***************************************************************************)
EXTENDS Integers, Sequences, FiniteSets, TLC

VARIABLES
    pc,                 \* position of main(): start, started, try, except, finally, exited, crashed
    tokens,             \* the three module-level credentials read from the environment
    now,                \* the wall clock, int(time.time())
    current_timestamp,  \* main's cursor: <<>> is Python None, <<t>> is the integer t
    status_message,     \* main's last status text
    error_message,      \* main's last failure text
    response,           \* what the network answered to the fetch of this iteration
    from_date,          \* the from_date parameter of the last request: <<>> before any request
    error,              \* the exception in flight: <<>> for none, <<e>> for the exception e
    notifs,             \* the send_message calls of this iteration, in order
    iter,               \* completed iterations of the while loop
    nfetch,             \* calls of get_api_answer so far
    nsleep,             \* calls of time.sleep so far
    nsend,              \* calls of send_message so far
    exit_code,          \* the process's exit status: -1 while it runs
    failure,            \* the failure text built by this iteration's handler: <<>> for none
    start,              \* cursor, last status text and last failure text when this iteration began
    prev,               \* the previous iteration: its response, failure text, send_message calls and start
    sent,               \* the start messages sent so far, and the last delivered text of each kind
    fn,                 \* the function under direct call (function-level specification)
    fn_arg,             \* its argument
    fn_res              \* its result

vars == <<pc, tokens, now, current_timestamp, status_message, error_message,
          response, from_date, error, notifs, iter, nfetch, nsleep, nsend,
          exit_code, failure, start, prev, sent, fn, fn_arg, fn_res>>

-----------------------------------------------------------------------------
(* Bounds of the model. *)

MaxIter == 3        \* iterations of the while loop that are explored
MaxLen == 2         \* longest list handed to check_response and parse_status directly
StartTime == 5000   \* the clock when the process starts

(* Program constants. *)

RETRY_TIME == 600
HTTP_OK == 200

-----------------------------------------------------------------------------
(* Python values.  Every value is a record of one shape, tagged by t:      *)
(* None, a str, a dict with (some of) the keys homework_name and status,   *)
(* or a list of such values.                                               *)

NoneVal == [t |-> "None", s |-> "", keys |-> {}, name |-> "", status |-> "", items |-> <<>>]
Str(x) == [t |-> "str", s |-> x, keys |-> {}, name |-> "", status |-> "", items |-> <<>>]
Dict(ks, n, st) ==
    [t |-> "dict", s |-> "", keys |-> ks,
     name |-> IF "homework_name" \in ks THEN n ELSE "",
     status |-> IF "status" \in ks THEN st ELSE "", items |-> <<>>]
List(xs) == [t |-> "list", s |-> "", keys |-> {}, name |-> "", status |-> "", items |-> xs]

SeqsUpTo(S, n) == UNION {[1..k -> S] : k \in 0..n}

(* repr() of a value nested in a list, and str() of a value in an f-string *)
ReprDict(d) ==
    "{" \o (IF "homework_name" \in d.keys
              THEN "'homework_name': '" \o d.name \o "'" ELSE "")
        \o (IF d.keys = {"homework_name", "status"} THEN ", " ELSE "")
        \o (IF "status" \in d.keys
              THEN "'status': '" \o d.status \o "'" ELSE "")
        \o "}"

ReprElem(v) ==
    CASE v.t = "None" -> "None"
      [] v.t = "str" -> "'" \o v.s \o "'"
      [] v.t = "dict" -> ReprDict(v)

RECURSIVE JoinRepr(_)
JoinRepr(xs) ==
    IF xs = <<>> THEN ""
    ELSE IF Len(xs) = 1 THEN ReprElem(xs[1])
    ELSE ReprElem(xs[1]) \o ", " \o JoinRepr(Tail(xs))

PyStr(v) ==
    CASE v.t = "list" -> "[" \o JoinRepr(v.items) \o "]"
      [] v.t = "str" -> v.s
      [] OTHER -> ReprElem(v)

-----------------------------------------------------------------------------
(* Exceptions and results.  A call either returns a value or raises.       *)

NoError == [type |-> "", text |-> ""]
Ok(v) == [ok |-> TRUE, val |-> v, err |-> NoError]
Raise(type, text) == [ok |-> FALSE, val |-> NoneVal, err |-> [type |-> type, text |-> text]]

(* str(error): a KeyError shows the repr of its argument, the others the text *)
ExcStr(e) == IF e.type = "KeyError" THEN "'" \o e.text \o "'" ELSE e.text

(* exceptions.py: the two exception classes of the program, subclasses of Exception *)
ExceptionSubclasses == {"APIerrorException", "SendMessageException"}

(* a handler for the lookup and type errors only: `except (KeyError, TypeError, ValueError)` *)
CaughtLookupErrorsOnly(e) == e.type \in {"KeyError", "TypeError", "ValueError"}

(* line 134: `except Exception` catches the built-in exceptions raised in   *)
(* the try body and the subclasses of Exception                             *)
BuiltinExceptions == {"Exception", "KeyError", "TypeError", "ValueError"}
Caught(e) == e.type \in BuiltinExceptions \cup ExceptionSubclasses

-----------------------------------------------------------------------------
(* StatusCatalog *)

HOMEWORK_STATUSES ==
    [approved |-> "Rabota proverena: revjueru vsjo ponravilos. Ura!",
     reviewing |-> "Rabota vzjata na proverku revjuerom.",
     rejected |-> "Rabota proverena: u revjuera est zamechanija."]

-----------------------------------------------------------------------------
(* parse_status and check_response *)

(* `key in homework`: key membership for a dict, element membership for a list *)
Contains(homework, key) ==
    IF homework.t = "dict" THEN key \in homework.keys
    ELSE \E i \in 1..Len(homework.items) : homework.items[i] = Str(key)

StatusText(homework_name, verdict) ==
    "Izmenilsja status proverki raboty \"" \o homework_name \o "\". " \o verdict

(* parse_status with an unknown status given a default verdict (dict.get) *)
parse_statusDefaultVerdict(homework) ==
    IF ~Contains(homework, "homework_name")
      THEN Raise("KeyError", "Otsutstvuet kljuch \"homework_name\" v otvete API")
    ELSE IF ~Contains(homework, "status")
      THEN Raise("Exception", "Otsutstvuet kljuch \"status\" v otvete API")
    ELSE IF homework.t = "list"
      THEN Raise("TypeError", "list indices must be integers or slices, not str")
    ELSE IF homework.status \notin DOMAIN HOMEWORK_STATUSES
      THEN Ok(StatusText(homework.name, "None"))
    ELSE Ok(StatusText(homework.name, HOMEWORK_STATUSES[homework.status]))

parse_status(homework) ==
    IF ~Contains(homework, "homework_name")
      THEN Raise("KeyError", "Otsutstvuet kljuch \"homework_name\" v otvete API")
    ELSE IF ~Contains(homework, "status")
      THEN Raise("Exception", "Otsutstvuet kljuch \"status\" v otvete API")
    ELSE IF homework.t = "list"
      THEN Raise("TypeError", "list indices must be integers or slices, not str")
    ELSE IF homework.status \notin DOMAIN HOMEWORK_STATUSES
      THEN Raise("Exception", "Neizvestnyi status raboty: " \o homework.status)
    ELSE Ok(StatusText(homework.name, HOMEWORK_STATUSES[homework.status]))

(* A decoded response body: a JSON object with (some of) the keys          *)
(* homeworks and current_date.                                             *)
Payload(ks, hw, date) ==
    [keys |-> ks,
     homeworks |-> IF "homeworks" \in ks THEN hw ELSE NoneVal,
     current_date |-> IF "current_date" \in ks THEN date ELSE 0]

(* check_response without the test for an empty list: homework[0] raises *)
check_responseNoEmptyTest(resp) ==
    IF "homeworks" \notin resp.keys
      THEN Raise("KeyError", "homeworks")
    ELSE LET homework == resp.homeworks IN
      IF homework.t = "None"
        THEN Raise("TypeError", "'NoneType' object is not subscriptable")
      ELSE IF homework.items = <<>>
        THEN Raise("IndexError", "list index out of range")
      ELSE IF homework.items[1].t = "None"
        THEN Raise("ValueError", "Net spiska proverjaemyh rabot.")
      ELSE IF homework.items[1].t # "dict"
        THEN Raise("TypeError", "Oshibka tipa dannyh! " \o PyStr(homework) \o " ne slovar!")
      ELSE Ok(homework)

check_response(resp) ==
    IF "homeworks" \notin resp.keys
      THEN Raise("KeyError", "homeworks")
    ELSE IF resp.homeworks = List(<<>>)
      THEN Raise("TypeError", "Ot API poluchen pustoi spisok proverjaemyh rabot.")
    ELSE IF "homeworks" \notin resp.keys
      THEN Raise("ValueError", "V otvete na zapros otsutstvuet kljuch \"homeworks\"")
    ELSE LET homework == resp.homeworks IN
      IF homework.t = "None"
        THEN Raise("TypeError", "'NoneType' object is not subscriptable")
      ELSE IF homework.items[1].t = "None"
        THEN Raise("ValueError", "Net spiska proverjaemyh rabot.")
      ELSE IF homework.items[1].t # "dict"
        THEN Raise("TypeError", "Oshibka tipa dannyh! " \o PyStr(homework) \o " ne slovar!")
      ELSE Ok(homework)

(* check_tokens: all([PRACTICUM_TOKEN, TELEGRAM_TOKEN, TELEGRAM_CHAT_ID]);  *)
(* an unset variable is None, a variable set to the empty string is falsy. *)
TokenNames == {"PRACTICUM_TOKEN", "TELEGRAM_TOKEN", "TELEGRAM_CHAT_ID"}
TokenValues == {"None", "", "secret"}
Truthy(v) == v \notin {"None", ""}

(* check_tokens with any() for all() *)
check_tokensAny(toks) == \E n \in TokenNames : Truthy(toks[n])

check_tokens(toks) == \A n \in TokenNames : Truthy(toks[n])

-----------------------------------------------------------------------------
(* The network, as get_api_answer sees it: requests.get raises, or answers *)
(* with a status code and a body that decodes as JSON or does not.         *)

TransportErrors == {"ConnectionError", "Timeout"}
StatusCodes == {HTTP_OK, 404, 500}
Dates == {0, 1000, 2000}

(* What the server sends as `homeworks` in the loop: null, and lists that   *)
(* take every way through check_response and parse_status.                 *)
Approved == Dict({"homework_name", "status"}, "hw1", "approved")
Rejected == Dict({"homework_name", "status"}, "hw1", "rejected")
LoopHomeworks ==
    {NoneVal, List(<<>>), List(<<NoneVal>>), List(<<Str("homework_name")>>),
     List(<<Approved>>), List(<<Rejected>>), List(<<Approved, Rejected>>),
     List(<<Approved, Str("homework_name")>>),
     List(<<Approved, Str("homework_name"), Str("status")>>)}
LoopPayloads ==
    {Payload(ks, hw, d) : ks \in SUBSET {"homeworks", "current_date"},
                          hw \in LoopHomeworks, d \in Dates}

NoPayload == Payload({}, NoneVal, 0)
NetRaises(c) == [exc |-> c, status_code |-> 0, decodable |-> FALSE, body |-> NoPayload]
NetAnswers(code, dec, body) ==
    [exc |-> "", status_code |-> code, decodable |-> dec,
     body |-> IF dec THEN body ELSE NoPayload]
NetOutcomes ==
    {NetRaises(c) : c \in TransportErrors}
    \cup {NetAnswers(code, FALSE, NoPayload) : code \in StatusCodes}
    \cup {NetAnswers(HTTP_OK, TRUE, p) : p \in LoopPayloads}

None == <<>>
Some(v) == <<v>>

(* line 47: `current_timestamp or int(time.time())` *)
Timestamp(cur, clock) == IF cur = None THEN clock ELSE IF cur[1] = 0 THEN clock ELSE cur[1]

get_api_answer(net) ==
    IF net.exc # ""
      THEN Raise("APIerrorException", "Oshibka pri zaprose k API: " \o net.exc)
    ELSE IF net.status_code # HTTP_OK
      THEN Raise("Exception", "Oshibka " \o ToString(net.status_code))
    ELSE IF ~net.decodable
      \* line 66 builds json.JSONDecodeError with one argument: the constructor raises
      THEN Raise("TypeError",
                 "JSONDecodeError.__init__() missing 2 required positional arguments: 'doc' and 'pos'")
    ELSE Ok(net.body)

(* send_message: the text goes to the chat, or TelegramError becomes SendMessageException *)
Notif(kind, text, delivered) == [kind |-> kind, text |-> text, ok |-> delivered]
SendError == [type |-> "SendMessageException", text |-> "Oshibka otpravki soobshchenija"]

(* response.get('current_date', 0): a default in place of None *)
GetCurrentDateOrZero(resp) ==
    IF "current_date" \in resp.keys THEN Some(resp.current_date) ELSE Some(0)

(* line 126: response.get('current_date') is None when the key is absent *)
GetCurrentDate(resp) ==
    IF "current_date" \in resp.keys THEN Some(resp.current_date) ELSE None

(* line 127: main hands parse_status what check_response returned *)
ParseArg(homework) == homework

(* lines 128-133 with the assignment before the send *)
StatusStepRecordsFirst(status, smsg, delivered) ==
    IF status # smsg
      THEN [status_message |-> status,
            error |-> IF delivered THEN None ELSE Some(SendError),
            notifs |-> <<Notif("status", status, delivered)>>]
    ELSE [status_message |-> smsg, error |-> None, notifs |-> <<>>]

(* lines 128-133: a status that differs from the last one is sent and then *)
(* recorded; send_message raising skips the assignment of line 130         *)
StatusStep(status, smsg, delivered) ==
    IF status # smsg
      THEN IF delivered
             THEN [status_message |-> status, error |-> None,
                   notifs |-> <<Notif("status", status, TRUE)>>]
             ELSE [status_message |-> smsg, error |-> Some(SendError),
                   notifs |-> <<Notif("status", status, FALSE)>>]
    ELSE [status_message |-> smsg, error |-> None, notifs |-> <<>>]

(* the try body with lines 126 and 127 exchanged: the cursor is assigned    *)
(* only after validation and formatting have passed                        *)
TryOutcomeCursorAfterValidation(cur, smsg, net, delivered) ==
    LET r == get_api_answer(net) IN
    IF ~r.ok
      THEN [cursor |-> cur, status_message |-> smsg, error |-> Some(r.err), notifs |-> <<>>]
    ELSE LET ts == GetCurrentDate(r.val)
             v == check_response(r.val) IN
      IF ~v.ok
        THEN [cursor |-> cur, status_message |-> smsg, error |-> Some(v.err), notifs |-> <<>>]
      ELSE LET p == parse_status(ParseArg(v.val)) IN
        IF ~p.ok
          THEN [cursor |-> cur, status_message |-> smsg, error |-> Some(p.err),
                notifs |-> <<>>]
        ELSE LET st == StatusStep(p.val, smsg, delivered) IN
          [cursor |-> ts, status_message |-> st.status_message, error |-> st.error,
           notifs |-> st.notifs]

(* lines 125-133, the body of try: the cursor, the last status text, the    *)
(* exception raised (if any) and the send_message calls it ends with.       *)
TryOutcome(cur, smsg, net, delivered) ==
    LET r == get_api_answer(net) IN
    IF ~r.ok
      THEN [cursor |-> cur, status_message |-> smsg, error |-> Some(r.err), notifs |-> <<>>]
    ELSE LET ts == GetCurrentDate(r.val)
             v == check_response(r.val) IN
      IF ~v.ok
        THEN [cursor |-> ts, status_message |-> smsg, error |-> Some(v.err), notifs |-> <<>>]
      ELSE LET p == parse_status(ParseArg(v.val)) IN
        IF ~p.ok
          THEN [cursor |-> ts, status_message |-> smsg, error |-> Some(p.err),
                notifs |-> <<>>]
        ELSE LET st == StatusStep(p.val, smsg, delivered) IN
          [cursor |-> ts, status_message |-> st.status_message, error |-> st.error,
           notifs |-> st.notifs]

(* line 136 *)
FailureMessage(e) == "Sboi v rabote programmy: " \o ExcStr(e)

(* the handler without the comparison with the last failure text *)
ShouldNotifyAlways(message, emsg) == TRUE

(* line 137 *)
ShouldNotify(message, emsg) == message # emsg

-----------------------------------------------------------------------------
(* main() *)

START_MESSAGE == "Bot nachal svoju rabotu!"
NoNet == NetRaises("")
Snapshot(cur, smsg, emsg) == [cursor |-> cur, status_message |-> smsg, error_message |-> emsg]
NoStart == Snapshot(None, "", "")
NoPrev == [response |-> NoNet, failure |-> None, notifs |-> <<>>, start |-> NoStart]

NoSent == [start |-> <<>>, status |-> "", error |-> ""]

(* what a send_message call adds to the record of sent messages *)
Record(s, n) ==
    IF n.kind = "start" THEN [s EXCEPT !.start = Append(@, n)]
    ELSE IF ~n.ok THEN s
    ELSE IF n.kind = "status" THEN [s EXCEPT !.status = n.text]
    ELSE [s EXCEPT !.error = n.text]

RECURSIVE RecordAll(_, _)
RecordAll(s, ns) == IF ns = <<>> THEN s ELSE RecordAll(Record(s, Head(ns)), Tail(ns))

fnIdle == fn = "none" /\ fn_arg = NoneVal /\ fn_res = Ok(NoneVal)

Init ==
    /\ pc = "start"
    /\ tokens \in [TokenNames -> TokenValues]
    /\ now = StartTime
    /\ current_timestamp = None
    /\ status_message = ""
    /\ error_message = ""
    /\ response = NoNet
    /\ from_date = None
    /\ error = None
    /\ notifs = <<>>
    /\ iter = 0
    /\ nfetch = 0
    /\ nsleep = 0
    /\ nsend = 0
    /\ exit_code = -1
    /\ failure = None
    /\ start = NoStart
    /\ prev = NoPrev
    /\ sent = NoSent
    /\ fnIdle

(* lines 114-117 *)
CheckTokens ==
    /\ pc = "start"
    /\ IF check_tokens(tokens)
         THEN pc' = "started" /\ exit_code' = exit_code
         ELSE pc' = "exited" /\ exit_code' = 1
    /\ UNCHANGED <<tokens, now, current_timestamp, status_message, error_message,
                   response, from_date, error, notifs, iter, nfetch, nsleep, nsend,
                   failure, start, prev, sent, fn, fn_arg, fn_res>>

(* the start message sent with its failure swallowed: the loop is entered anyway *)
SendStartFailureIgnored ==
    /\ pc = "started"
    /\ \E delivered \in BOOLEAN :
         /\ notifs' = <<Notif("start", START_MESSAGE, delivered)>>
         /\ sent' = Record(sent, Notif("start", START_MESSAGE, delivered))
         /\ nsend' = nsend + 1
    /\ pc' = "try"
    /\ current_timestamp' = Some(now)
    /\ status_message' = ""
    /\ error_message' = ""
    /\ UNCHANGED <<tokens, now, response, from_date, error, iter, nfetch, nsleep,
                   exit_code, failure, start, prev, fn, fn_arg, fn_res>>

(* lines 118-122: the start message is sent outside any try *)
SendStart ==
    /\ pc = "started"
    /\ \E delivered \in BOOLEAN :
         /\ notifs' = <<Notif("start", START_MESSAGE, delivered)>>
         /\ sent' = Record(sent, Notif("start", START_MESSAGE, delivered))
         /\ nsend' = nsend + 1
         /\ IF delivered
              THEN /\ pc' = "try"
                   /\ current_timestamp' = Some(now)
                   /\ error' = None
                   /\ exit_code' = exit_code
              ELSE /\ pc' = "crashed"
                   /\ current_timestamp' = current_timestamp
                   /\ error' = Some(SendError)
                   /\ exit_code' = 1
    /\ status_message' = ""
    /\ error_message' = ""
    /\ UNCHANGED <<tokens, now, response, from_date, iter, nfetch, nsleep,
                   failure, start, prev, fn, fn_arg, fn_res>>

(* lines 124-133 *)
TryBody ==
    /\ pc = "try"
    /\ iter < MaxIter
    /\ \E net \in NetOutcomes, delivered \in BOOLEAN :
         LET o == TryOutcome(current_timestamp, status_message, net, delivered) IN
         /\ response' = net
         /\ from_date' = Some(Timestamp(current_timestamp, now))
         /\ nfetch' = nfetch + 1
         /\ current_timestamp' = o.cursor
         /\ status_message' = o.status_message
         /\ error' = o.error
         /\ notifs' = o.notifs
         /\ sent' = RecordAll(sent, o.notifs)
         /\ nsend' = nsend + Len(o.notifs)
         /\ pc' = IF o.error # None /\ Caught(o.error[1]) THEN "except" ELSE "finally"
    /\ failure' = None
    /\ start' = Snapshot(current_timestamp, status_message, error_message)
    /\ UNCHANGED <<tokens, now, error_message, iter, nsleep, exit_code, prev,
                   fn, fn_arg, fn_res>>

(* the handler with line 139 before line 138: the text is recorded, then sent *)
ExceptRecordsBeforeSend ==
    /\ pc = "except"
    /\ LET message == FailureMessage(error[1]) IN
       /\ failure' = Some(message)
       /\ IF ShouldNotify(message, error_message)
            THEN \E delivered \in BOOLEAN :
                   /\ notifs' = Append(notifs, Notif("error", message, delivered))
                   /\ sent' = Record(sent, Notif("error", message, delivered))
                   /\ nsend' = nsend + 1
                   /\ error_message' = message
                   /\ error' = IF delivered THEN None ELSE Some(SendError)
            ELSE /\ error' = None
                 /\ UNCHANGED <<notifs, sent, nsend, error_message>>
    /\ pc' = "finally"
    /\ UNCHANGED <<tokens, now, current_timestamp, status_message, response, from_date,
                   iter, nfetch, nsleep, exit_code, start, prev, fn, fn_arg, fn_res>>

(* the handler sending its text a second time when the first send fails *)
ExceptSendsAgain ==
    /\ pc = "except"
    /\ LET message == FailureMessage(error[1]) IN
       /\ failure' = Some(message)
       /\ IF ShouldNotify(message, error_message)
            THEN \E delivered \in BOOLEAN, again \in BOOLEAN :
                   LET calls == IF delivered THEN <<Notif("error", message, TRUE)>>
                                ELSE <<Notif("error", message, FALSE),
                                       Notif("error", message, again)>> IN
                   /\ notifs' = notifs \o calls
                   /\ sent' = RecordAll(sent, calls)
                   /\ nsend' = nsend + Len(calls)
                   /\ error_message' = IF delivered \/ again THEN message ELSE error_message
                   /\ error' = IF delivered \/ again THEN None ELSE Some(SendError)
            ELSE /\ error' = None
                 /\ UNCHANGED <<notifs, sent, nsend, error_message>>
    /\ pc' = "finally"
    /\ UNCHANGED <<tokens, now, current_timestamp, status_message, response, from_date,
                   iter, nfetch, nsleep, exit_code, start, prev, fn, fn_arg, fn_res>>

(* lines 134-139 *)
Except ==
    /\ pc = "except"
    /\ LET message == FailureMessage(error[1]) IN
       /\ failure' = Some(message)
       /\ IF ShouldNotify(message, error_message)
            THEN \E delivered \in BOOLEAN :
                   /\ notifs' = Append(notifs, Notif("error", message, delivered))
                   /\ sent' = Record(sent, Notif("error", message, delivered))
                   /\ nsend' = nsend + 1
                   /\ error_message' = IF delivered THEN message ELSE error_message
                   /\ error' = IF delivered THEN None ELSE Some(SendError)
            ELSE /\ error' = None
                 /\ UNCHANGED <<notifs, sent, nsend, error_message>>
    /\ pc' = "finally"
    /\ UNCHANGED <<tokens, now, current_timestamp, status_message, response, from_date,
                   iter, nfetch, nsleep, exit_code, start, prev, fn, fn_arg, fn_res>>

(* the sleep written after the try statement instead of in its finally:    *)
(* an exception leaving the handler skips it                               *)
FinallySleepAfterTry ==
    /\ pc = "finally"
    /\ iter' = iter + 1
    /\ prev' = [response |-> response, failure |-> failure, notifs |-> notifs,
                 start |-> start]
    /\ IF error = None
         THEN /\ pc' = "try"
              /\ exit_code' = exit_code
              /\ now' = now + RETRY_TIME
              /\ nsleep' = nsleep + 1
         ELSE /\ pc' = "crashed"
              /\ exit_code' = 1
              /\ UNCHANGED <<now, nsleep>>
    /\ UNCHANGED <<tokens, current_timestamp, status_message, error_message, response,
                   from_date, error, notifs, nfetch, nsend, failure, start, sent,
                   fn, fn_arg, fn_res>>

(* lines 140-141: the sleep runs on every way out of try/except; an         *)
(* exception raised by the handler is still in flight after it and leaves   *)
(* the while loop and main().                                               *)
Finally ==
    /\ pc = "finally"
    /\ now' = now + RETRY_TIME
    /\ nsleep' = nsleep + 1
    /\ iter' = iter + 1
    /\ prev' = [response |-> response, failure |-> failure, notifs |-> notifs,
                 start |-> start]
    /\ IF error = None
         THEN pc' = "try" /\ exit_code' = exit_code
         ELSE pc' = "crashed" /\ exit_code' = 1
    /\ UNCHANGED <<tokens, current_timestamp, status_message, error_message, response,
                   from_date, error, notifs, nfetch, nsend, failure, start, sent,
                   fn, fn_arg, fn_res>>

Next == CheckTokens \/ SendStart \/ TryBody \/ Except \/ Finally

Spec == Init /\ [][Next]_vars

-----------------------------------------------------------------------------
(* The functions called directly, on every input up to the bounds.         *)

Names == {"hw1", "hw2"}
Codes == {"approved", "reviewing", "rejected", "pending"}
FnDicts == {Dict(ks, n, st) : ks \in SUBSET {"homework_name", "status"},
                              n \in Names, st \in Codes}
FnElements == {NoneVal, Str("homework_name"), Str("status")} \cup FnDicts
FnLists == {List(xs) : xs \in SeqsUpTo(FnElements, MaxLen)}
FnPayloads ==
    {Payload(ks, hw, d) : ks \in SUBSET {"homeworks", "current_date"},
                          hw \in FnLists \cup {NoneVal}, d \in Dates}

InitFn ==
    /\ pc = "fn"
    /\ tokens = [n \in TokenNames |-> "secret"]
    /\ now = StartTime
    /\ current_timestamp = None
    /\ status_message = ""
    /\ error_message = ""
    /\ response = NoNet
    /\ from_date = None
    /\ error = None
    /\ notifs = <<>>
    /\ iter = 0
    /\ nfetch = 0
    /\ nsleep = 0
    /\ nsend = 0
    /\ exit_code = -1
    /\ failure = None
    /\ start = NoStart
    /\ prev = NoPrev
    /\ sent = NoSent
    /\ fnIdle

loopVars == <<pc, tokens, now, current_timestamp, status_message, error_message,
              response, from_date, error, notifs, iter, nfetch, nsleep, nsend,
              exit_code, failure, start, prev, sent>>

CallParseStatus ==
    /\ pc = "fn"
    /\ fn = "none"
    /\ \E homework \in FnDicts \cup FnLists :
         /\ fn' = "parse_status"
         /\ fn_arg' = homework
         /\ fn_res' = parse_status(homework)
    /\ UNCHANGED loopVars

CallCheckResponse ==
    /\ pc = "fn"
    /\ fn = "none"
    /\ \E resp \in FnPayloads :
         /\ fn' = "check_response"
         /\ fn_arg' = resp
         /\ fn_res' = check_response(resp)
    /\ UNCHANGED loopVars

(* the texts parse_status returns *)
StatusTexts == {parse_status(d).val : d \in {x \in FnDicts : parse_status(x).ok}}

CallStatusStep ==
    /\ pc = "fn"
    /\ fn = "none"
    /\ \E status \in StatusTexts, smsg \in StatusTexts \cup {""}, delivered \in BOOLEAN :
         /\ fn' = "status_step"
         /\ fn_arg' = [status |-> status, smsg |-> smsg, delivered |-> delivered]
         /\ fn_res' = StatusStep(status, smsg, delivered)
    /\ UNCHANGED loopVars

NextFn == CallParseStatus \/ CallCheckResponse \/ CallStatusStep

SpecFn == InitFn /\ [][NextFn]_vars

-----------------------------------------------------------------------------
(* Properties.  An iteration's work is complete at pc = "finally": there    *)
(* response, notifs and failure are this iteration's, prev the one before. *)

Sends(ns, kind) == Cardinality({i \in 1..Len(ns) : ns[i].kind = kind})
AllDelivered(ns) == \A i \in 1..Len(ns) : ns[i].ok
Fetched(body) == response = NetAnswers(HTTP_OK, TRUE, body)

ApprovedPayload == Payload({"homeworks", "current_date"}, List(<<Approved>>), 1000)
ApprovedText == StatusText("hw1", HOMEWORK_STATUSES["approved"])

(* C1: from the initial loop state, the cycle that fetches                  *)
(* {homeworks: [{homework_name: hw1, status: approved}], current_date: 1000} *)
(* makes exactly one notify call, carrying the approved text for hw1, makes *)
(* no error notification, and leaves the cursor at 1000.                    *)
C1_ApprovedCycleNotifiesOnce ==
    (pc = "finally" /\ iter = 0 /\ Fetched(ApprovedPayload) /\ AllDelivered(notifs))
    => /\ notifs = <<Notif("status", ApprovedText, TRUE)>>
       /\ current_timestamp = Some(1000)

(* The status text the first record of a fetched payload formats to, <<>>  *)
(* when the fetch, the validation or the formatting of that record fails.  *)
FirstRecordText(net) ==
    LET r == get_api_answer(net) IN
    IF ~r.ok THEN None
    ELSE IF ~check_response(r.val).ok THEN None
    ELSE LET p == parse_status(r.val.homeworks.items[1]) IN
         IF p.ok THEN Some(p.val) ELSE None

(* C2: the first two cycles, when their payloads format to the same status *)
(* text and every delivery succeeds, make exactly one status notify call   *)
(* between them.                                                           *)
C2_SameStatusTwiceNotifiesOnce ==
    (/\ pc = "finally" /\ iter = 1
     /\ FirstRecordText(response) # None
     /\ FirstRecordText(response) = FirstRecordText(prev.response)
     /\ AllDelivered(prev.notifs) /\ AllDelivered(notifs))
    => Sends(prev.notifs, "status") + Sends(notifs, "status") = 1

(* C3: an error notification is attempted only with a failure text that    *)
(* differs from the last failure text the iteration started with; and of   *)
(* two consecutive cycles that fail with the same description the second   *)
(* notifies nothing and the first notifies once, exactly when the          *)
(* description was new to it: one notification, never two.                 *)
C3_ErrorDedup ==
    /\ \A i \in 1..Len(notifs) :
         notifs[i].kind = "error" =>
           /\ notifs[i].text # start.error_message
           /\ failure = Some(notifs[i].text)
    /\ (pc = "finally" /\ iter >= 1 /\ failure # None /\ failure = prev.failure)
       => /\ Sends(notifs, "error") = 0
          /\ error_message = failure[1]
          /\ Sends(prev.notifs, "error") =
               (IF prev.failure[1] # prev.start.error_message THEN 1 ELSE 0)
          /\ (iter = 1 => Sends(prev.notifs, "error") = 1)

C3_Witness ==
    /\ pc = "finally" /\ iter = 1 /\ failure # None /\ failure = prev.failure
    /\ Sends(prev.notifs, "error") = 1 /\ Sends(notifs, "error") = 0

(* C4: a cycle whose fetch raised a transport failure never ends with the  *)
(* process terminated.                                                     *)
C4_TransportFailureNeverTerminates ==
    (nfetch >= 1 /\ response.exc # "") => pc # "crashed"

(* C5: a delivery failure of a notify call made inside the loop never      *)
(* terminates the process.                                                 *)
C5_LoopDeliveryFailureNeverTerminates ==
    (\E i \in 1..Len(notifs) : notifs[i].kind # "start" /\ ~notifs[i].ok)
    => pc # "crashed"

(* C6: every iteration sleeps exactly once, for RETRY_TIME, after its work, *)
(* on every way out: every fetch but the one in progress has been followed *)
(* by a sleep, so no two fetches happen without a sleep between them.      *)
C6_OneSleepPerIteration ==
    /\ nsleep = iter
    /\ now = StartTime + RETRY_TIME * nsleep
    /\ nfetch = (IF pc \in {"except", "finally"} THEN nsleep + 1 ELSE nsleep)

C6_Witness ==
    pc = "crashed" /\ iter = 2 /\ nfetch = 2 /\ nsleep = 2 /\ error = Some(SendError)

MissingHomeworksError ==
    [type |-> "ValueError", text |-> "V otvete na zapros otsutstvuet kljuch \"homeworks\""]
EmptyResultError ==
    [type |-> "TypeError", text |-> "Ot API poluchen pustoi spisok proverjaemyh rabot."]

(* C7: check_response of a payload without the key `homeworks` fails with  *)
(* the missing-key error of check_response, which is not the error of an   *)
(* empty list.                                                             *)
C7_MissingKeyError ==
    (fn = "check_response" /\ "homeworks" \notin fn_arg.keys)
    => /\ ~fn_res.ok
       /\ fn_res.err = MissingHomeworksError
       /\ fn_res.err # EmptyResultError

(* C8: a cycle that fetches a payload whose `homeworks` is the empty list  *)
(* fails in check_response with the empty-result error and goes through    *)
(* the error handler: the failure text embeds that error and no status     *)
(* notification is made.                                                   *)
FetchedEmptyList ==
    /\ response.exc = "" /\ response.status_code = HTTP_OK /\ response.decodable
    /\ "homeworks" \in response.body.keys
    /\ response.body.homeworks = List(<<>>)

C8_EmptyListTakesErrorPath ==
    (FetchedEmptyList /\ pc \in {"except", "finally"})
    => /\ Sends(notifs, "status") = 0
       /\ IF pc = "except"
            THEN error = Some(EmptyResultError) /\ failure = None
            ELSE failure = Some(FailureMessage(EmptyResultError))

C8_Witness ==
    /\ FetchedEmptyList /\ pc = "finally"
    /\ notifs = <<Notif("error", FailureMessage(EmptyResultError), TRUE)>>

UnknownStatusError(status) ==
    [type |-> "Exception", text |-> "Neizvestnyi status raboty: " \o status]
MissingNameError ==
    [type |-> "KeyError", text |-> "Otsutstvuet kljuch \"homework_name\" v otvete API"]
MissingStatusError ==
    [type |-> "Exception", text |-> "Otsutstvuet kljuch \"status\" v otvete API"]
Known(status) == status \in {"approved", "reviewing", "rejected"}
OnRecord == fn = "parse_status" /\ fn_arg.t = "dict"

(* C9, as stated: parse_status of a record fails with the unknown-status   *)
(* error whenever its status is not one of the three codes, fails with the *)
(* missing-field error whenever the name is absent, and otherwise returns  *)
(* the template text.                                                      *)
C9_AsStated ==
    OnRecord =>
      /\ ("status" \in fn_arg.keys /\ ~Known(fn_arg.status))
           => (~fn_res.ok /\ fn_res.err = UnknownStatusError(fn_arg.status))
      /\ "homework_name" \notin fn_arg.keys
           => (~fn_res.ok /\ fn_res.err = MissingNameError)
      /\ ("homework_name" \in fn_arg.keys /\ "status" \in fn_arg.keys /\ Known(fn_arg.status))
           => fn_res = Ok(StatusText(fn_arg.name, HOMEWORK_STATUSES[fn_arg.status]))

(* C9, amended: parse_status of a record fails with the missing-field      *)
(* error whenever the name is absent; with the name present it fails with  *)
(* the missing-field error of the status when the status is absent and with *)
(* the unknown-status error when the status is present and not one of the  *)
(* three codes, never producing a verdict; otherwise it returns the        *)
(* template text built from the name and the catalog verdict.              *)
C9_ParseStatus ==
    OnRecord =>
      IF "homework_name" \notin fn_arg.keys
        THEN ~fn_res.ok /\ fn_res.err = MissingNameError
      ELSE IF "status" \notin fn_arg.keys
        THEN ~fn_res.ok /\ fn_res.err = MissingStatusError
      ELSE IF ~Known(fn_arg.status)
        THEN ~fn_res.ok /\ fn_res.err = UnknownStatusError(fn_arg.status)
      ELSE fn_res = Ok(StatusText(fn_arg.name, HOMEWORK_STATUSES[fn_arg.status]))

C9_Witness ==
    /\ OnRecord
    /\ fn_arg = Dict({"homework_name", "status"}, "hw1", "pending")
    /\ fn_res = Raise("Exception", "Neizvestnyi status raboty: pending")

(* C10: with any of the three credentials missing the process exits with   *)
(* status 1 before the loop: it never calls send_message or get_api_answer. *)
SomeTokenMissing == \E n \in TokenNames : ~Truthy(tokens[n])

C10_MissingTokenExits ==
    (SomeTokenMissing /\ pc # "fn")
    => /\ pc \in {"start", "exited"}
       /\ pc = "exited" => exit_code = 1
       /\ nsend = 0 /\ nfetch = 0 /\ notifs = <<>>

C10_Witness ==
    /\ pc = "exited" /\ exit_code = 1 /\ nsend = 0 /\ nfetch = 0
    /\ tokens["PRACTICUM_TOKEN"] = "secret" /\ tokens["TELEGRAM_TOKEN"] = "secret"
    /\ tokens["TELEGRAM_CHAT_ID"] = "None"

(* C11: the start message is sent once, before the first fetch; every     *)
(* process that is in the loop, or has fetched, sent it once and had it     *)
(* delivered; a process whose start message failed is terminated, with no   *)
(* fetch made and no iteration begun.                                       *)
InLoop == pc \in {"try", "except", "finally"}

C11_StartMessageOnceBeforeLoop ==
    /\ Len(sent.start) <= 1
    /\ \A i \in 1..Len(sent.start) : sent.start[i].text = START_MESSAGE
    /\ (InLoop \/ nfetch >= 1 \/ iter >= 1)
         => (Len(sent.start) = 1 /\ sent.start[1].ok)
    /\ (Len(sent.start) = 1 /\ ~sent.start[1].ok)
         => (pc = "crashed" /\ exit_code = 1 /\ nfetch = 0 /\ iter = 0 /\ nsleep = 0)
    /\ \A i \in 1..Len(notifs) : notifs[i].kind = "start" => (nfetch = 0 /\ i = 1)

C11_Witness ==
    /\ pc = "crashed" /\ nfetch = 0 /\ iter = 0
    /\ sent.start = <<Notif("start", START_MESSAGE, FALSE)>>

(* The try body of this iteration has run; its fetch returned a payload.    *)
Worked == pc \in {"except", "finally"}
FetchOk(net) == get_api_answer(net).ok
HasDate(net) == "current_date" \in net.body.keys

ValidationFailed(net) ==
    \/ ~check_response(net.body).ok
    \/ ~parse_status(check_response(net.body).val).ok

C13_CursorFrame ==
    /\ (Worked /\ ~FetchOk(response)) => current_timestamp = start.cursor
    /\ (Worked /\ FetchOk(response) /\ HasDate(response))
         => current_timestamp = Some(response.body.current_date)
    /\ (Worked /\ FetchOk(response) /\ ~HasDate(response)) => current_timestamp = None
    /\ (pc \in {"try", "crashed"} /\ iter >= 1)
         => current_timestamp =
              (IF ~FetchOk(response) THEN start.cursor
               ELSE IF HasDate(response) THEN Some(response.body.current_date) ELSE None)

C13_Witness ==
    /\ pc = "finally" /\ FetchOk(response) /\ ValidationFailed(response)
    /\ failure # None
    /\ HasDate(response) /\ current_timestamp = Some(1000)
    /\ start.cursor # current_timestamp

(* Lines 128-133 applied to a status text and a last status text that      *)
(* differ: send_message is called with the status.                        *)
StatusSendAttempted == fn = "status_step" /\ fn_arg.status # fn_arg.smsg

C15_StatusDeliveryFailureHandled ==
    (/\ pc = "finally"
     /\ FirstRecordText(response) # None
     /\ FirstRecordText(response) # Some(start.status_message))
    => /\ Len(notifs) >= 1
       /\ notifs[1].kind = "status"
       /\ Some(notifs[1].text) = FirstRecordText(response)
       /\ ~notifs[1].ok
            => /\ failure = Some(FailureMessage(SendError))
               /\ FailureMessage(SendError) # start.error_message
                    => (Len(notifs) = 2 /\ notifs[2].kind = "error"
                        /\ notifs[2].text = FailureMessage(SendError))

(* C16: the last status text is the empty text or the text of the last     *)
(* delivered status notification, the last failure text is the empty text  *)
(* or the text of the last delivered error notification, and a send that   *)
(* failed leaves the text of its kind as it was when the iteration began.  *)
C16_LastTextsAreDelivered ==
    /\ status_message = sent.status
    /\ error_message = sent.error
    /\ \A i \in 1..Len(notifs) :
         /\ (notifs[i].kind = "status" /\ ~notifs[i].ok)
              => status_message = start.status_message
         /\ (notifs[i].kind = "error" /\ ~notifs[i].ok)
              => error_message = start.error_message

C16_Witness ==
    /\ pc = "finally" /\ iter = 1
    /\ Sends(prev.notifs, "error") = 1 /\ AllDelivered(prev.notifs)
    /\ Len(notifs) = 1 /\ notifs[1].kind = "error" /\ ~notifs[1].ok
    /\ error_message = prev.failure[1] /\ error_message # notifs[1].text

(* C17: a cycle that ends in the handler leaves the last status text as it *)
(* was, a cycle that ends without error leaves the last failure text as it *)
(* was, and a failure whose text was the last failure text before a cycle  *)
(* with a well-formed payload is not notified again after it.              *)
C17_MemoriesIndependent ==
    /\ (pc = "finally" /\ failure # None /\ Sends(notifs, "status") = 0)
         => status_message = start.status_message
    /\ (pc = "finally" /\ failure = None) => error_message = start.error_message
    /\ (/\ pc = "finally" /\ iter >= 1
        /\ FirstRecordText(prev.response) # None
        /\ AllDelivered(prev.notifs)
        /\ failure # None /\ failure = Some(prev.start.error_message))
       => Sends(notifs, "error") = 0

(* C18: once in the loop, the process terminates only after an error       *)
(* notification whose delivery failed: with every such delivery succeeding *)
(* no exception is in flight when the sleep begins, whatever the fetch,    *)
(* the validation and the formatting did, and the next iteration follows.  *)
ErrorDeliveryFailed == \E i \in 1..Len(notifs) : notifs[i].kind = "error" /\ ~notifs[i].ok

C18_LoopRunsOn ==
    /\ (pc \in {"crashed", "exited"} /\ nfetch >= 1) => ErrorDeliveryFailed
    /\ (pc = "finally" /\ ~ErrorDeliveryFailed) => error = None
    /\ (pc = "try" /\ iter >= 1) => (~ErrorDeliveryFailed /\ exit_code = -1)

C18_Witness ==
    /\ pc = "try" /\ iter = 2 /\ exit_code = -1
    /\ response.exc # "" /\ ~FetchOk(prev.response) /\ failure # None

(* C19: an iteration calls send_message at most twice; twice only with a   *)
(* status notification that failed followed by an error notification; a    *)
(* delivered status notification is the only call of its iteration.        *)
C19_AtMostTwoNotifies ==
    nfetch >= 1
    => /\ Len(notifs) <= 2
       /\ Len(notifs) = 2
            => (notifs[1].kind = "status" /\ ~notifs[1].ok /\ notifs[2].kind = "error")
       /\ \A i \in 1..Len(notifs) :
            (notifs[i].kind = "status" /\ notifs[i].ok) => Len(notifs) = 1
       /\ \A i \in 1..Len(notifs) : notifs[i].kind # "start"

C19_Witness ==
    /\ pc = "finally" /\ Len(notifs) = 1 /\ notifs[1].kind = "error" /\ ~notifs[1].ok

====
